---------------------------- MODULE Spec2Model ----------------------------
(***************************************************************************)
(* Column mapping of the Solar Equipment Explorer (utils/column_mapper.py) *)
(* and the upload section of the approved-vendor-list tab that drives it   *)
(* (solar_explorer.py).  One action is one run of the Streamlit script     *)
(* with the single interaction that triggered it.                          *)
(***************************************************************************)
EXTENDS Naturals, Sequences, FiniteSets, TLC

VARIABLES
    uploaded_file,      \* 0: no file in the uploader, else the index of the uploaded table
    mapping_step,       \* st.session_state.mapping_step
    column_mapping,     \* st.session_state.column_mapping: dict in insertion order, <<src, dst>> items
    mapping_complete,   \* st.session_state.mapping_complete
    mapping_validated,  \* st.session_state.mapping_validated
    mapped_df,          \* st.session_state.mapped_df: <<>> is None, <<df>> a DataFrame
    avl_data,           \* st.session_state.avl_data: <<>> is None, <<df>> a DataFrame
    validation,         \* <<>> or <<v>>: the (is_valid, unmapped_required) last computed and shown
    edits,              \* number of selectbox interactions so far (bounded by MaxEdits)
    uploads,            \* number of files put into the uploader so far (bounded by MaxUploads)
    auto_mapping,       \* the dict the Auto-Map handler builds (lines 224-235); empty outside it
    db,                 \* approved_vendor_list.db: the table, its rows and its sqlite_sequence row
    last                \* the interaction of the last run; for auto-map and reset, the mapping
                        \* it started from

vars == <<uploaded_file, mapping_step, column_mapping, mapping_complete,
          mapping_validated, mapped_df, avl_data, validation, edits, uploads,
          auto_mapping, db, last>>

(***************************************************************************)
(* Schema registry                                                         *)
(***************************************************************************)
STANDARD_COLUMNS ==
    << "Equipment Category", "Manufacturer", "Technology Type", "Model SKU",
       "Product Model Description", "Racking System Name",
       "Power Rating Specification", "Module Level Power Electronics",
       "System Configuration", "Racking Style", "Internal Notes / Memo",
       "Additional Notes" >>

\* the number of canonical fields
CanonicalFieldCount == 12

Range(s) == { s[i] : i \in DOMAIN s }

\* the position of a canonical field in the registry
StandardIndex(col) == CHOOSE k \in DOMAIN STANDARD_COLUMNS : STANDARD_COLUMNS[k] = col

(***************************************************************************)
(* Strings.  A name is a TLA+ string in the state; Chars gives its         *)
(* characters, on which lower(), replace() and "in" work as in Python.     *)
(***************************************************************************)
Chars(name) ==
    CASE name = "Equipment Category" -> <<"E","q","u","i","p","m","e","n","t"," ","C","a","t","e","g","o","r","y">>
      [] name = "Manufacturer" -> <<"M","a","n","u","f","a","c","t","u","r","e","r">>
      [] name = "Technology Type" -> <<"T","e","c","h","n","o","l","o","g","y"," ","T","y","p","e">>
      [] name = "Model SKU" -> <<"M","o","d","e","l"," ","S","K","U">>
      [] name = "Product Model Description" -> <<"P","r","o","d","u","c","t"," ","M","o","d","e","l"," ","D","e","s","c","r","i","p","t","i","o","n">>
      [] name = "Racking System Name" -> <<"R","a","c","k","i","n","g"," ","S","y","s","t","e","m"," ","N","a","m","e">>
      [] name = "Power Rating Specification" -> <<"P","o","w","e","r"," ","R","a","t","i","n","g"," ","S","p","e","c","i","f","i","c","a","t","i","o","n">>
      [] name = "Module Level Power Electronics" -> <<"M","o","d","u","l","e"," ","L","e","v","e","l"," ","P","o","w","e","r"," ","E","l","e","c","t","r","o","n","i","c","s">>
      [] name = "System Configuration" -> <<"S","y","s","t","e","m"," ","C","o","n","f","i","g","u","r","a","t","i","o","n">>
      [] name = "Racking Style" -> <<"R","a","c","k","i","n","g"," ","S","t","y","l","e">>
      [] name = "Internal Notes / Memo" -> <<"I","n","t","e","r","n","a","l"," ","N","o","t","e","s"," ","/"," ","M","e","m","o">>
      [] name = "Additional Notes" -> <<"A","d","d","i","t","i","o","n","a","l"," ","N","o","t","e","s">>
      [] name = "Mfr" -> <<"M","f","r">>
      [] name = "Cat" -> <<"C","a","t">>
      [] name = "desc" -> <<"d","e","s","c">>
      [] name = "Notes" -> <<"N","o","t","e","s">>
      [] name = "memo" -> <<"m","e","m","o">>
      [] name = "note" -> <<"n","o","t","e">>
      [] name = "equipment category" -> <<"e","q","u","i","p","m","e","n","t"," ","c","a","t","e","g","o","r","y">>
      [] name = "manufacturer_name" -> <<"m","a","n","u","f","a","c","t","u","r","e","r","_","n","a","m","e">>
      [] name = "Technology_Type" -> <<"T","e","c","h","n","o","l","o","g","y","_","T","y","p","e">>
      [] name = "model_sku" -> <<"m","o","d","e","l","_","s","k","u">>
      [] name = "product_model_description" -> <<"p","r","o","d","u","c","t","_","m","o","d","e","l","_","d","e","s","c","r","i","p","t","i","o","n">>
      [] name = "racking_system_name" -> <<"r","a","c","k","i","n","g","_","s","y","s","t","e","m","_","n","a","m","e">>
      [] name = "power_rating_specification" -> <<"p","o","w","e","r","_","r","a","t","i","n","g","_","s","p","e","c","i","f","i","c","a","t","i","o","n">>
      [] name = "MODULE_LEVEL_POWER_ELECTRONICS" -> <<"M","O","D","U","L","E","_","L","E","V","E","L","_","P","O","W","E","R","_","E","L","E","C","T","R","O","N","I","C","S">>
      [] name = "system_configuration" -> <<"s","y","s","t","e","m","_","c","o","n","f","i","g","u","r","a","t","i","o","n">>
      [] name = "racking_style" -> <<"r","a","c","k","i","n","g","_","s","t","y","l","e">>
      [] name = "internal_notes" -> <<"i","n","t","e","r","n","a","l","_","n","o","t","e","s">>
      [] name = "additional_notes" -> <<"a","d","d","i","t","i","o","n","a","l","_","n","o","t","e","s">>
      [] name = "Vendor Code" -> <<"V","e","n","d","o","r"," ","C","o","d","e">>
      [] name = "manufacturer" -> <<"m","a","n","u","f","a","c","t","u","r","e","r">>
      [] name = " MODEL SKU " -> <<" ","M","O","D","E","L"," ","S","K","U"," ">>
      [] name = "internal notes" -> <<"i","n","t","e","r","n","a","l"," ","n","o","t","e","s">>
      [] name = "Internal Notes" -> <<"I","n","t","e","r","n","a","l"," ","N","o","t","e","s">>

UpperCase == << "A","B","C","D","E","F","G","H","I","J","K","L","M",
                "N","O","P","Q","R","S","T","U","V","W","X","Y","Z" >>
LowerCase == << "a","b","c","d","e","f","g","h","i","j","k","l","m",
                "n","o","p","q","r","s","t","u","v","w","x","y","z" >>

\* str.lower(), character by character
str_lower(s) ==
    [ i \in 1..Len(s) |->
        IF \E k \in DOMAIN UpperCase : UpperCase[k] = s[i]
        THEN LowerCase[CHOOSE k \in DOMAIN UpperCase : UpperCase[k] = s[i]]
        ELSE s[i] ]

\* str.replace(old, new) for one-character old and new
str_replace(s, old, new) == [ i \in 1..Len(s) |-> IF s[i] = old THEN new ELSE s[i] ]

\* Python's  a in b  on strings: a is a contiguous substring of b
str_in(a, b) ==
    /\ Len(a) <= Len(b)
    /\ \E k \in 0..(Len(b) - Len(a)) : \A i \in 1..Len(a) : b[k + i] = a[i]

\* str.strip() for blanks: the part between the first and the last non-blank
str_strip(s) ==
    LET inked == { i \in DOMAIN s : s[i] # " " }
    IN  IF inked = {} THEN <<>>
        ELSE SubSeq(s, CHOOSE i \in inked : \A j \in inked : i <= j,
                       CHOOSE i \in inked : \A j \in inked : j <= i)

(***************************************************************************)
(* dict, in insertion order                                                *)
(***************************************************************************)
DictKeys(d) == { d[i][1] : i \in DOMAIN d }
DictValues(d) == { d[i][2] : i \in DOMAIN d }
DictHas(d, k) == \E i \in DOMAIN d : d[i][1] = k
DictIndex(d, k) == CHOOSE i \in DOMAIN d : d[i][1] = k
DictGet(d, k, default) == IF DictHas(d, k) THEN d[DictIndex(d, k)][2] ELSE default

\* d[k] = v for a key the dict has: the key keeps its place
DictReplace(d, k, v) ==
    SubSeq(d, 1, DictIndex(d, k) - 1) \o << <<k, v>> >> \o SubSeq(d, DictIndex(d, k) + 1, Len(d))

\* d[k] = v : a new key goes last
DictSet(d, k, v) == IF DictHas(d, k) THEN DictReplace(d, k, v) ELSE Append(d, <<k, v>>)

\* del d[k] taking the entries after it along
DictDelFrom(d, k) == SubSeq(d, 1, DictIndex(d, k) - 1)

\* del d[k]
DictDel(d, k) == SelectSeq(d, LAMBDA item : item[1] # k)

\* d.update(other): d[k] = v for each item of other, in order
RECURSIVE DictUpdate(_, _)
DictUpdate(d, other) ==
    IF other = <<>> THEN d
    ELSE IF DictHas(d, Head(other)[1])
    THEN DictUpdate(DictReplace(d, Head(other)[1], Head(other)[2]), Tail(other))
    ELSE DictUpdate(Append(d, Head(other)), Tail(other))

(***************************************************************************)
(* DataFrame: the row count (index) and the columns in order, each a       *)
(* <<name, values>> pair.  NullValue is None / NaN.                        *)
(***************************************************************************)
NullValue == <<>>

DataFrame(index, cols) == [ index |-> index, cols |-> cols ]

\* pd.DataFrame()
EmptyDataFrame == DataFrame(0, <<>>)

DfColumns(df) == [ i \in DOMAIN df.cols |-> df.cols[i][1] ]
DfHasColumn(df, name) == \E i \in DOMAIN df.cols : df.cols[i][1] = name
DfColumnIndex(df, name) == CHOOSE i \in DOMAIN df.cols : df.cols[i][1] = name
DfSeries(df, name) == df.cols[DfColumnIndex(df, name)][2]
DfLen(df) == df.index

DfPut(df, name, values) ==
    IF DfHasColumn(df, name)
    THEN DataFrame(df.index,
                   SubSeq(df.cols, 1, DfColumnIndex(df, name) - 1) \o << <<name, values>> >>
                       \o SubSeq(df.cols, DfColumnIndex(df, name) + 1, Len(df.cols)))
    ELSE DataFrame(df.index, Append(df.cols, <<name, values>>))

\* df[name] = series, the series being a column of a frame with a RangeIndex:
\* a frame with no rows takes the index of a non-empty series (its own columns
\* become null there); otherwise the series is aligned to the frame's index.
DfSetSeries(df, name, series) ==
    IF df.index = 0 /\ Len(series) > 0
    THEN DfPut([ index |-> Len(series),
                 cols  |-> [ i \in DOMAIN df.cols |->
                               <<df.cols[i][1], [ r \in 1..Len(series) |-> NullValue ]>> ] ],
               name, series)
    ELSE DfPut(df, name,
               [ r \in 1..df.index |-> IF r <= Len(series) THEN series[r] ELSE NullValue ])

\* df[name] = scalar : the scalar is broadcast over the frame's index
DfSetScalar(df, name, value) == DfPut(df, name, [ r \in 1..df.index |-> value ])

\* df[names]
DfSelect(df, names) ==
    DataFrame(df.index, [ i \in DOMAIN names |-> <<names[i], DfSeries(df, names[i])>> ])

(***************************************************************************)
(* validate_mapping and apply_column_mapping                               *)
(***************************************************************************)
\* validate_mapping counting the entries instead of the distinct destinations
validate_counting_entries(mapping) ==
    LET mapped_destinations == DictValues(mapping)
        unmapped_required ==
            SelectSeq(STANDARD_COLUMNS, LAMBDA col : col \notin mapped_destinations)
    IN  [ is_valid |-> Len(mapping) >= Len(STANDARD_COLUMNS),
          unmapped_required |-> unmapped_required ]

\* validate_mapping listing the missing fields last to first
validate_reversed(mapping) ==
    LET mapped_destinations == DictValues(mapping)
        unmapped_required ==
            SelectSeq(STANDARD_COLUMNS, LAMBDA col : col \notin mapped_destinations)
    IN  [ is_valid |-> Len(unmapped_required) = 0,
          unmapped_required |->
              [ i \in DOMAIN unmapped_required |->
                  unmapped_required[Len(unmapped_required) + 1 - i] ] ]

validate_mapping(mapping) ==
    LET mapped_destinations == DictValues(mapping)
        unmapped_required ==
            SelectSeq(STANDARD_COLUMNS, LAMBDA col : col \notin mapped_destinations)
    IN  [ is_valid |-> Len(unmapped_required) = 0,
          unmapped_required |-> unmapped_required ]

\* AddMappedColumns keeping the first column copied under a destination
RECURSIVE AddMappedColumnsFirstWins(_, _, _)
AddMappedColumnsFirstWins(mapped, source_df, items) ==
    IF items = <<>> THEN mapped
    ELSE LET source_col == Head(items)[1]
             dest_col == Head(items)[2]
         IN  AddMappedColumnsFirstWins(
                 IF DfHasColumn(source_df, source_col) /\ ~DfHasColumn(mapped, dest_col)
                 THEN DfSetSeries(mapped, dest_col, DfSeries(source_df, source_col))
                 ELSE mapped,
                 source_df, Tail(items))

\* for source_col, dest_col in mapping.items(): copy the column if the source has it
RECURSIVE AddMappedColumns(_, _, _)
AddMappedColumns(mapped, source_df, items) ==
    IF items = <<>> THEN mapped
    ELSE LET source_col == Head(items)[1]
             dest_col == Head(items)[2]
         IN  AddMappedColumns(
                 IF DfHasColumn(source_df, source_col)
                 THEN DfSetSeries(mapped, dest_col, DfSeries(source_df, source_col))
                 ELSE mapped,
                 source_df, Tail(items))

\* AddEmptyColumns filling the missing columns with empty strings instead of None
RECURSIVE AddEmptyColumnsBlank(_, _)
AddEmptyColumnsBlank(mapped, columns) ==
    IF columns = <<>> THEN mapped
    ELSE AddEmptyColumnsBlank(
             IF DfHasColumn(mapped, Head(columns)) THEN mapped
             ELSE DfSetScalar(mapped, Head(columns), << "" >>),
             Tail(columns))

\* for col in STANDARD_COLUMNS: add a None column where the frame has none
RECURSIVE AddEmptyColumns(_, _)
AddEmptyColumns(mapped, columns) ==
    IF columns = <<>> THEN mapped
    ELSE AddEmptyColumns(
             IF DfHasColumn(mapped, Head(columns)) THEN mapped
             ELSE DfSetScalar(mapped, Head(columns), NullValue),
             Tail(columns))

\* apply_column_mapping without the final mapped_df[STANDARD_COLUMNS]
apply_without_reorder(source_df, mapping) ==
    AddEmptyColumns(AddMappedColumns(EmptyDataFrame, source_df, mapping), STANDARD_COLUMNS)

apply_column_mapping(source_df, mapping) ==
    DfSelect(AddEmptyColumns(AddMappedColumns(EmptyDataFrame, source_df, mapping),
                             STANDARD_COLUMNS),
             STANDARD_COLUMNS)

(***************************************************************************)
(* Uploaded source tables.  Cell r of column c holds the value <<c, r>>.   *)
(***************************************************************************)
TableColumns ==
    << << "Mfr", "Cat", "desc" >>,
       << "Notes", "memo", "note" >>,
       << "equipment category", "manufacturer_name", "Technology_Type", "model_sku",
          "product_model_description", "racking_system_name",
          "power_rating_specification", "MODULE_LEVEL_POWER_ELECTRONICS",
          "system_configuration", "racking_style", "internal_notes",
          "additional_notes" >>,
       << "Mfr" >>,
       << "Cat", "equipment category" >>,
       STANDARD_COLUMNS \o << "Vendor Code" >> >>

TableRows == << 2, 1, 1, 0, 1, 1 >>

Tables == DOMAIN TableColumns

SourceTable(t) ==
    DataFrame(TableRows[t],
              [ i \in DOMAIN TableColumns[t] |->
                  << TableColumns[t][i],
                     [ r \in 1..TableRows[t] |-> << TableColumns[t][i], r >> ] >> ])

\* every column name of the uploaded tables
AllSourceColumns == UNION { Range(TableColumns[t]) : t \in Tables }

\* solar_explorer.py 988: the canonical fields that are no column of the uploaded table
missing_columns(df) == SelectSeq(STANDARD_COLUMNS, LAMBDA col : ~DfHasColumn(df, col))

\* the columns of the tables that reach the interface (solar_explorer.py 990)
MappableColumns ==
    UNION { Range(TableColumns[t]) :
              t \in { u \in Tables : missing_columns(SourceTable(u)) # <<>> } }

\* df.empty
DfIsEmpty(df) == df.index = 0 \/ df.cols = <<>>

(***************************************************************************)
(* Persistence: the approved_vendor_list table of approved_vendor_list.db. *)
(* rows are the records in rowid order, each with its item_id, the twelve  *)
(* canonical values in registry order and date_added; sequence is the      *)
(* table's row of sqlite_sequence (<<>> while there is none).              *)
(***************************************************************************)
\* the database file before the table is created
NoDb == [ exists |-> FALSE, rows |-> <<>>, sequence |-> <<>> ]

\* CREATE TABLE IF NOT EXISTS
create_approved_vendor_list_table(d) == [ d EXCEPT !.exists = TRUE ]

\* the database once the tab has loaded the stored list
LoadedDb == create_approved_vendor_list_table(NoDb)

SetMax(S) == IF S = {} THEN 0 ELSE CHOOSE n \in S : \A m \in S : m <= n

ItemIds(d) == { d.rows[i].item_id : i \in DOMAIN d.rows }

\* INTEGER PRIMARY KEY AUTOINCREMENT: one more than the largest id ever used
next_item_id(d) == SetMax(ItemIds(d) \cup Range(d.sequence)) + 1

\* lines 46-74: the name a column of the saved frame is renamed to
normalize_column(col) ==
    LET normalized_col == str_strip(str_lower(Chars(col)))
        hits == { k \in DOMAIN STANDARD_COLUMNS :
                    normalized_col = str_lower(Chars(STANDARD_COLUMNS[k])) }
    IN  IF hits # {} THEN STANDARD_COLUMNS[CHOOSE k \in hits : TRUE]
        ELSE IF normalized_col = Chars("internal notes") THEN "Internal Notes / Memo"
        ELSE col

\* the column names of the frames that are saved
SaveColumns ==
    AllSourceColumns \cup Range(STANDARD_COLUMNS)
        \cup { "manufacturer", " MODEL SKU ", "internal notes", "Vendor Code" }

\* lines 46-74 for every such name (computed once)
SaveColumnTable == { << col, normalize_column(col) >> : col \in SaveColumns }

save_column_name(col) == (CHOOSE pair \in SaveColumnTable : pair[1] = col)[2]

\* df.rename(columns=column_mapping).columns
normalized_columns(df) == [ i \in DOMAIN df.cols |-> save_column_name(df.cols[i][1]) ]

\* the positions row.get(field) finds: none gives the default None, one gives
\* the cell, several give a Series
field_positions(df, field) == { i \in DOMAIN df.cols : normalized_columns(df)[i] = field }

\* clean_value: None for a missing value, otherwise the stripped text of the cell
clean_value(val) == IF val = NullValue THEN NullValue ELSE << "clean", val >>

\* pd.isna of a Series is a Series, whose truth value raises ValueError
clean_value_raises(df) ==
    /\ DfLen(df) > 0
    /\ \E k \in DOMAIN STANDARD_COLUMNS :
          Cardinality(field_positions(df, STANDARD_COLUMNS[k])) > 1

\* lines 89-103: the item built from row r
save_item(df, r) ==
    [ k \in DOMAIN STANDARD_COLUMNS |->
        LET found == field_positions(df, STANDARD_COLUMNS[k])
        IN  IF found = {} THEN NullValue
            ELSE clean_value(df.cols[CHOOSE i \in found : TRUE][2][r]) ]

\* save_approved_vendor_list_data storing every field as null
save_all_null(d, df, today) ==
    LET created == create_approved_vendor_list_table(d)
        first == next_item_id(created)
        inserted == [ r \in 1..DfLen(df) |->
                        [ item_id |-> first + r - 1,
                          values |-> [ k \in DOMAIN STANDARD_COLUMNS |-> NullValue ],
                          date_added |-> today ] ]
    IN  IF clean_value_raises(df)
        THEN [ db |-> created, returned |-> NullValue, raised |-> TRUE ]
        ELSE [ db |-> IF DfLen(df) = 0 THEN created
                      ELSE [ created EXCEPT !.rows = @ \o inserted,
                                            !.sequence = << first + DfLen(df) - 1 >> ],
               returned |-> DfLen(df), raised |-> FALSE ]

\* save_approved_vendor_list_data numbering the new rows from 1
save_from_one(d, df, today) ==
    LET created == create_approved_vendor_list_table(d)
        inserted == [ r \in 1..DfLen(df) |->
                        [ item_id |-> r,
                          values |-> save_item(df, r),
                          date_added |-> today ] ]
    IN  IF clean_value_raises(df)
        THEN [ db |-> created, returned |-> NullValue, raised |-> TRUE ]
        ELSE [ db |-> IF DfLen(df) = 0 THEN created
                      ELSE [ created EXCEPT !.rows = @ \o inserted,
                                            !.sequence = << DfLen(df) >> ],
               returned |-> DfLen(df), raised |-> FALSE ]

save_approved_vendor_list_data(d, df, today) ==
    LET created == create_approved_vendor_list_table(d)
        first == next_item_id(created)
        inserted == [ r \in 1..DfLen(df) |->
                        [ item_id |-> first + r - 1,
                          values |-> save_item(df, r),
                          date_added |-> today ] ]
    IN  IF clean_value_raises(df)
        THEN [ db |-> created, returned |-> NullValue, raised |-> TRUE ]
        ELSE [ db |-> IF DfLen(df) = 0 THEN created
                      ELSE [ created EXCEPT !.rows = @ \o inserted,
                                            !.sequence = << first + DfLen(df) - 1 >> ],
               returned |-> DfLen(df), raised |-> FALSE ]

\* pd.Timestamp.now().strftime('%Y-%m-%d')
Dates == { "2024-05-01", "2024-05-02" }

\* every statement on a missing table raises OperationalError
delete_approved_vendor_list_item(d, item_id) ==
    IF ~d.exists
    THEN [ db |-> d, returned |-> NullValue, raised |-> TRUE ]
    ELSE [ db |-> [ d EXCEPT !.rows = SelectSeq(@, LAMBDA row : row.item_id # item_id) ],
           returned |-> item_id \in ItemIds(d), raised |-> FALSE ]

\* drop_approved_vendor_list_data leaving the sqlite_sequence row in place
drop_keeping_sequence(d) ==
    IF ~d.exists
    THEN [ db |-> d, returned |-> NullValue, raised |-> TRUE ]
    ELSE [ db |-> [ d EXCEPT !.rows = <<>> ],
           returned |-> Len(d.sequence), raised |-> FALSE ]

\* the value returned is the rowcount of the second DELETE
drop_approved_vendor_list_data(d) ==
    IF ~d.exists
    THEN [ db |-> d, returned |-> NullValue, raised |-> TRUE ]
    ELSE [ db |-> [ d EXCEPT !.rows = <<>>, !.sequence = <<>> ],
           returned |-> Len(d.sequence), raised |-> FALSE ]

\* lines 42-45: the canonical fields that updated_data names
update_fields(updated_data) ==
    { k \in DOMAIN STANDARD_COLUMNS : DictHas(updated_data, STANDARD_COLUMNS[k]) }

\* update_avl_record without the WHERE clause
update_every_record(d, item_id, updated_data) ==
    IF update_fields(updated_data) = {}
    THEN [ db |-> d, returned |-> FALSE, raised |-> FALSE ]
    ELSE IF ~d.exists
    THEN [ db |-> d, returned |-> NullValue, raised |-> TRUE ]
    ELSE [ db |-> [ d EXCEPT !.rows =
                      [ i \in DOMAIN @ |->
                          [ @[i] EXCEPT !.values =
                              [ k \in DOMAIN STANDARD_COLUMNS |->
                                  IF k \in update_fields(updated_data)
                                  THEN DictGet(updated_data, STANDARD_COLUMNS[k], NullValue)
                                  ELSE @[k] ] ] ] ],
           returned |-> d.rows # <<>>, raised |-> FALSE ]

update_avl_record(d, item_id, updated_data) ==
    IF update_fields(updated_data) = {}
    THEN [ db |-> d, returned |-> FALSE, raised |-> FALSE ]
    ELSE IF ~d.exists
    THEN [ db |-> d, returned |-> NullValue, raised |-> TRUE ]
    ELSE [ db |-> [ d EXCEPT !.rows =
                      [ i \in DOMAIN @ |->
                          IF @[i].item_id # item_id THEN @[i]
                          ELSE [ @[i] EXCEPT !.values =
                                   [ k \in DOMAIN STANDARD_COLUMNS |->
                                       IF k \in update_fields(updated_data)
                                       THEN DictGet(updated_data, STANDARD_COLUMNS[k], NullValue)
                                       ELSE @[k] ] ] ] ],
           returned |-> item_id \in ItemIds(d), raised |-> FALSE ]

(***************************************************************************)
(* Bounds on the operator's interactions                                   *)
(***************************************************************************)
MaxEdits == 2
MaxUploads == 2
MaxPickColumns == 2
MaxPickFields == 2
MaxSavedRows == 1

(***************************************************************************)
(* render_column_mapping_interface: the selectbox of each source column    *)
(***************************************************************************)
\* the options offered for col, given the mapping when its selectbox is built
dest_options(col, mapping) ==
    LET all_options == << "" >> \o STANDARD_COLUMNS
        current_selection == DictGet(mapping, col, "")
    IN  IF ~DictHas(mapping, col) /\ current_selection = ""
        THEN SelectSeq(all_options,
                 LAMBDA opt : ~\E i \in DOMAIN mapping :
                                  mapping[i][1] # col /\ mapping[i][2] = opt)
        ELSE all_options

\* what st.selectbox returns when the operator did not touch it: options[index]
selectbox_default(col, mapping) ==
    LET options == dest_options(col, mapping)
        current_selection == DictGet(mapping, col, "")
    IN  IF current_selection \in Range(options) THEN current_selection ELSE options[1]

\* the loop over source_df.columns, lines 146-177; pick is <<>> or the <<col, dest>>
\* the operator chose.  Lines 171-175 store the selection, or delete the entry on
\* an empty selection.
RECURSIVE render_source_columns(_, _, _)
render_source_columns(mapping, columns, pick) ==
    IF columns = <<>> THEN mapping
    ELSE LET col == Head(columns)
             selected_dest == IF pick # <<>> /\ pick[1] = col THEN pick[2]
                              ELSE selectbox_default(col, mapping)
         IN  IF selected_dest # ""
             THEN render_source_columns(DictSet(mapping, col, selected_dest),
                                        Tail(columns), pick)
             ELSE IF DictHas(mapping, col)
             THEN render_source_columns(DictDel(mapping, col), Tail(columns), pick)
             ELSE render_source_columns(mapping, Tail(columns), pick)

\* the option lists the selectboxes of one pass are given (line 165), each
\* computed from the mapping as it stands when the loop reaches its column
RECURSIVE offered_options(_, _, _)
offered_options(mapping, columns, pick) ==
    IF columns = <<>> THEN <<>>
    ELSE << << Head(columns), dest_options(Head(columns), mapping) >> >>
           \o offered_options(render_source_columns(mapping, << Head(columns) >>, pick),
                              Tail(columns), pick)

(***************************************************************************)
(* Auto-Map Columns                                                        *)
(***************************************************************************)
\* line 229 without lower()
dst_as_written(dst_col) == Chars(dst_col)

\* line 227 and 229
src_lower(src_col) == str_replace(str_lower(Chars(src_col)), "_", " ")
dst_lower(dst_col) == str_lower(Chars(dst_col))

\* line 231 with the containment tested in one direction only
name_matches_one_way(src_col, dst_col) == str_in(dst_lower(dst_col), src_lower(src_col))

\* line 231
name_matches(src_col, dst_col) ==
    \/ str_in(dst_lower(dst_col), src_lower(src_col))
    \/ str_in(src_lower(src_col), dst_lower(dst_col))

\* line 231 for every source column and every position in STANDARD_COLUMNS (computed once)
MatchTable ==
    { << pair[1], pair[2], name_matches(pair[1], STANDARD_COLUMNS[pair[2]]) >> :
        pair \in MappableColumns \X DOMAIN STANDARD_COLUMNS }

\* the inner loop skipping only the destinations that other source columns hold
auto_map_column_other_claims(src_col, suggestions) ==
    LET free == { k \in DOMAIN STANDARD_COLUMNS :
                    /\ <<src_col, k, TRUE>> \in MatchTable
                    /\ ~\E i \in DOMAIN suggestions :
                          /\ suggestions[i][1] # src_col
                          /\ suggestions[i][2] = STANDARD_COLUMNS[k] }
    IN  IF free = {} THEN ""
        ELSE STANDARD_COLUMNS[CHOOSE k \in free : \A j \in free : k <= j]

\* the inner loop, lines 228-235: the first matching destination that is not among
\* auto_mapping.values(); "" when the loop ends without a break
auto_map_column(src_col, suggestions) ==
    LET free == { k \in DOMAIN STANDARD_COLUMNS :
                    /\ <<src_col, k, TRUE>> \in MatchTable
                    /\ STANDARD_COLUMNS[k] \notin DictValues(suggestions) }
    IN  IF free = {} THEN ""
        ELSE STANDARD_COLUMNS[CHOOSE k \in free : \A j \in free : k <= j]

\* the outer loop, lines 225-235
RECURSIVE auto_map_columns(_, _)
auto_map_columns(suggestions, columns) ==
    IF columns = <<>> THEN suggestions
    ELSE LET dst_col == auto_map_column(Head(columns), suggestions)
         IN  IF dst_col = ""
             THEN auto_map_columns(suggestions, Tail(columns))
             ELSE auto_map_columns(DictSet(suggestions, Head(columns), dst_col),
                                   Tail(columns))

\* line 238 adding the suggestions after the entries instead of updating them
auto_map_append(mapping, columns) == mapping \o auto_map_columns(<<>>, columns)

\* line 238
auto_map_update(mapping, columns) == DictUpdate(mapping, auto_map_columns(<<>>, columns))

(***************************************************************************)
(* One pass of render_column_mapping_interface up to the buttons           *)
(***************************************************************************)
\* lines 146-212: the mapping after the selectboxes, the validation shown, the flag
render_pass(mapping, validated, columns, pick) ==
    LET current_mapping == render_source_columns(mapping, columns, pick)
        shown == validate_mapping(current_mapping)
    IN  [ column_mapping |-> current_mapping,
          validation |-> shown,
          mapping_validated |-> (validated \/ shown.is_valid) ]

\* line 190: the source columns whose entry names dest_col, in the order of the dict
mapped_sources(mapping, dest_col) ==
    LET entries == SelectSeq(mapping, LAMBDA item : item[2] = dest_col)
    IN  [ i \in DOMAIN entries |-> entries[i][1] ]

\* lines 188-196: the status line of each canonical field, "" for "Not mapped yet"
\* and otherwise the source column named after "Mapped from"
destination_status(mapping) ==
    [ k \in DOMAIN STANDARD_COLUMNS |->
        IF Len(mapped_sources(mapping, STANDARD_COLUMNS[k])) > 0
        THEN mapped_sources(mapping, STANDARD_COLUMNS[k])[1]
        ELSE "" ]

\* solar_explorer.py 1000-1010: the caller keeps the mapped table when told complete
caller_avl_data(complete, mapped, current) == IF complete THEN mapped ELSE current

raw_df == SourceTable(uploaded_file)

\* the mapping interface is on screen: a file is uploaded that lacks canonical
\* columns (line 990), mapping was started and the table is not empty (line 125)
InterfaceShown ==
    /\ uploaded_file # 0
    /\ missing_columns(raw_df) # <<>>
    /\ mapping_step
    /\ ~DfIsEmpty(raw_df)

\* the selectboxes the operator changes, and the options chosen there
PickColumns ==
    UNION { { TableColumns[t][i] : i \in { j \in DOMAIN TableColumns[t] : j <= MaxPickColumns } } :
              t \in Tables }
PickFields ==
    { "" } \cup { STANDARD_COLUMNS[k] : k \in { j \in DOMAIN STANDARD_COLUMNS : j <= MaxPickFields } }

(***************************************************************************)
(* The session: one action per run of the script                           *)
(***************************************************************************)
Ran(op) == [ op |-> op, before |-> <<>> ]

\* a run in which the operator changed one selectbox: the mapping it started from
\* and the <<column, destination>> chosen
Picked(op, pick) ==
    IF pick = <<>> THEN Ran(op) ELSE [ op |-> op, before |-> column_mapping, pick |-> pick ]

\* session state after the initialisations of solar_explorer.py 863-874 and
\* initialize_column_mapping_state
Init ==
    /\ uploaded_file = 0
    /\ mapping_step = FALSE
    /\ column_mapping = <<>>
    /\ mapping_complete = FALSE
    /\ mapping_validated = FALSE
    /\ mapped_df = <<>>
    /\ avl_data = <<>>
    /\ validation = <<>>
    /\ edits = 0
    /\ uploads = 0
    /\ auto_mapping = <<>>
    /\ db = LoadedDb
    /\ last = Ran("init")

\* a run in which no button is pressed and at most one selectbox was changed:
\* solar_explorer.py 994-1010 around lines 125-212 and 255 of the interface
RunInterface(t, pick, op) ==
    IF DfIsEmpty(SourceTable(t))
    THEN /\ UNCHANGED <<column_mapping, mapping_complete, mapping_validated,
                        mapped_df, avl_data, validation>>
         /\ last' = Picked(op, pick)
    ELSE LET pass == render_pass(column_mapping, mapping_validated,
                                 DfColumns(SourceTable(t)), pick)
         IN  /\ column_mapping' = pass.column_mapping
             /\ mapping_validated' = pass.mapping_validated
             /\ validation' = << pass.validation >>
             /\ avl_data' = caller_avl_data(mapping_complete, mapped_df, avl_data)
             /\ UNCHANGED <<mapping_complete, mapped_df>>
             /\ last' = Picked(op, pick)

\* the operator puts a file into the uploader, or takes it out (t = 0)
Upload(t) ==
    /\ t # uploaded_file
    /\ uploads < MaxUploads
    /\ uploaded_file' = t
    /\ uploads' = uploads + 1
    /\ UNCHANGED <<mapping_step, edits, auto_mapping, db>>
    /\ IF t # 0 /\ missing_columns(SourceTable(t)) = <<>>
       THEN /\ avl_data' = << SourceTable(t) >>
            /\ UNCHANGED <<column_mapping, mapping_complete, mapping_validated,
                           mapped_df, validation>>
            /\ last' = Ran("upload")
       ELSE IF t # 0 /\ mapping_step
       THEN RunInterface(t, <<>>, "upload")
       ELSE /\ UNCHANGED <<column_mapping, mapping_complete, mapping_validated,
                           mapped_df, avl_data, validation>>
            /\ last' = Ran("upload")

\* "Map Columns Now"
MapColumnsNow ==
    /\ uploaded_file # 0
    /\ missing_columns(raw_df) # <<>>
    /\ ~mapping_step
    /\ mapping_step' = TRUE
    /\ UNCHANGED <<uploaded_file, edits, uploads, auto_mapping, db>>
    /\ RunInterface(uploaded_file, <<>>, "map_now")

\* the operator changes the selectbox of one source column
SelectDestination(col, dest) ==
    /\ InterfaceShown
    /\ edits < MaxEdits
    /\ col \in Range(DfColumns(raw_df))
    /\ dest \in Range(dest_options(col, column_mapping))
    /\ dest # selectbox_default(col, column_mapping)
    /\ edits' = edits + 1
    /\ UNCHANGED <<uploaded_file, mapping_step, uploads, auto_mapping, db>>
    /\ RunInterface(uploaded_file, <<col, dest>>, "select")

\* reset_column_mapping leaving the two flags as they are
reset_keeping_flags ==
    [ column_mapping |-> <<>>,
      mapping_complete |-> mapping_complete,
      mapping_validated |-> mapping_validated ]

\* reset_column_mapping leaving the entries as they are
reset_keeping_entries ==
    [ column_mapping |-> column_mapping, mapping_complete |-> FALSE,
      mapping_validated |-> FALSE ]

\* reset_column_mapping, lines 38-42: the session values it assigns
reset_column_mapping ==
    [ column_mapping |-> <<>>, mapping_complete |-> FALSE, mapping_validated |-> FALSE ]

\* "Reset Mapping": the pass up to the button, reset_column_mapping, and the rerun
ResetMapping ==
    /\ InterfaceShown
    /\ LET reset == reset_column_mapping
           rerun == render_pass(reset.column_mapping, reset.mapping_validated,
                                DfColumns(raw_df), <<>>)
       IN  /\ column_mapping' = rerun.column_mapping
           /\ mapping_validated' = rerun.mapping_validated
           /\ validation' = << rerun.validation >>
           /\ mapping_complete' = reset.mapping_complete
           /\ avl_data' = caller_avl_data(reset.mapping_complete, mapped_df, avl_data)
    /\ UNCHANGED <<uploaded_file, mapping_step, mapped_df, edits, uploads, auto_mapping, db>>
    /\ last' = [ op |-> "reset", before |-> column_mapping ]

\* an Auto-Map Columns that also applies the mapping it produced
AutoMapColumnsApplying ==
    /\ InterfaceShown
    /\ LET first == render_pass(column_mapping, mapping_validated, DfColumns(raw_df), <<>>)
           updated == auto_map_update(first.column_mapping, DfColumns(raw_df))
           rerun == render_pass(updated, first.mapping_validated, DfColumns(raw_df), <<>>)
       IN  /\ column_mapping' = rerun.column_mapping
           /\ mapping_validated' = rerun.mapping_validated
           /\ validation' = << rerun.validation >>
           /\ mapped_df' = << apply_column_mapping(raw_df, rerun.column_mapping) >>
           /\ avl_data' = caller_avl_data(mapping_complete, mapped_df, avl_data)
    /\ UNCHANGED <<uploaded_file, mapping_step, mapping_complete, edits, uploads,
                   auto_mapping, db>>
    /\ last' = [ op |-> "auto_map", before |-> column_mapping ]

\* "Auto-Map Columns": the pass up to the button, lines 225-238, and the rerun
AutoMapColumns ==
    /\ InterfaceShown
    /\ LET first == render_pass(column_mapping, mapping_validated, DfColumns(raw_df), <<>>)
           updated == auto_map_update(first.column_mapping, DfColumns(raw_df))
           rerun == render_pass(updated, first.mapping_validated, DfColumns(raw_df), <<>>)
       IN  /\ column_mapping' = rerun.column_mapping
           /\ mapping_validated' = rerun.mapping_validated
           /\ validation' = << rerun.validation >>
           /\ avl_data' = caller_avl_data(mapping_complete, mapped_df, avl_data)
    /\ UNCHANGED <<uploaded_file, mapping_step, mapping_complete, mapped_df, edits, uploads,
                   auto_mapping, db>>
    /\ last' = [ op |-> "auto_map", before |-> column_mapping ]

\* an Apply Mapping button that is enabled whatever the validation says
ApplyMappingAlwaysEnabled ==
    /\ InterfaceShown
    /\ LET pass == render_pass(column_mapping, mapping_validated, DfColumns(raw_df), <<>>)
           result == apply_column_mapping(raw_df, pass.column_mapping)
       IN  /\ column_mapping' = pass.column_mapping
           /\ mapping_validated' = pass.mapping_validated
           /\ validation' = << pass.validation >>
           /\ mapped_df' = << result >>
           /\ mapping_complete' = TRUE
           /\ avl_data' = caller_avl_data(TRUE, << result >>, avl_data)
    /\ UNCHANGED <<uploaded_file, mapping_step, edits, uploads, auto_mapping, db>>
    /\ last' = Ran("apply")

\* "Apply Mapping", enabled when the pass found the mapping valid (line 243)
ApplyMapping ==
    /\ InterfaceShown
    /\ LET pass == render_pass(column_mapping, mapping_validated, DfColumns(raw_df), <<>>)
           result == apply_column_mapping(raw_df, pass.column_mapping)
       IN  /\ pass.validation.is_valid
           /\ column_mapping' = pass.column_mapping
           /\ mapping_validated' = pass.mapping_validated
           /\ validation' = << pass.validation >>
           /\ mapped_df' = << result >>
           /\ mapping_complete' = TRUE
           /\ avl_data' = caller_avl_data(TRUE, << result >>, avl_data)
    /\ UNCHANGED <<uploaded_file, mapping_step, edits, uploads, auto_mapping, db>>
    /\ last' = Ran("apply")

\* what a save button's handler recorded: the frame handed to the persistence layer
Saved(op, df, result) ==
    [ op |-> op, before |-> db, table |-> df,
      returned |-> result.returned, raised |-> result.raised ]

\* "Save Mapped Data to Database", shown when the interface reports the mapping
\* complete: the pass, lines 1002-1010, the save, mapping_step reset and the rerun,
\* which shows the Map Columns Now button again
SaveMappedData(today) ==
    /\ InterfaceShown
    /\ mapping_complete
    /\ LET pass == render_pass(column_mapping, mapping_validated, DfColumns(raw_df), <<>>)
           df_avl == mapped_df[1]
           result == save_approved_vendor_list_data(db, df_avl, today)
       IN  /\ Len(result.db.rows) <= MaxSavedRows
           /\ column_mapping' = pass.column_mapping
           /\ mapping_validated' = pass.mapping_validated
           /\ validation' = << pass.validation >>
           /\ avl_data' = << df_avl >>
           /\ db' = result.db
           /\ mapping_step' = result.raised
           /\ last' = Saved("save_mapped", df_avl, result)
    /\ UNCHANGED <<uploaded_file, mapping_complete, mapped_df, edits, uploads, auto_mapping>>

\* "Save to Database", shown for a file that has every canonical column:
\* lines 1038-1045, the save and the rerun
SaveToDatabase(today) ==
    /\ uploaded_file # 0
    /\ missing_columns(raw_df) = <<>>
    /\ LET df_avl == raw_df
           result == save_approved_vendor_list_data(db, df_avl, today)
       IN  /\ Len(result.db.rows) <= MaxSavedRows
           /\ avl_data' = << df_avl >>
           /\ db' = result.db
           /\ last' = Saved("save_raw", df_avl, result)
    /\ UNCHANGED <<uploaded_file, mapping_step, column_mapping, mapping_complete,
                   mapping_validated, mapped_df, validation, edits, uploads, auto_mapping>>

Next ==
    \/ \E t \in Tables : Upload(t)
    \/ MapColumnsNow
    \/ \E col \in PickColumns, dest \in PickFields : SelectDestination(col, dest)
    \/ ResetMapping
    \/ AutoMapColumns
    \/ ApplyMapping
    \/ \E today \in Dates : SaveMappedData(today)
    \/ \E today \in Dates : SaveToDatabase(today)

Spec == Init /\ [][Next]_vars

(***************************************************************************)
(* validate_mapping and apply_column_mapping called directly, on any       *)
(* source table and any mapping of a bounded family                        *)
(***************************************************************************)
MaxExtra == 1

\* the wide table's columns mapped one to one onto the schema
FullMapping ==
    [ i \in DOMAIN STANDARD_COLUMNS |-> << TableColumns[3][i], STANDARD_COLUMNS[i] >> ]

\* its prefixes, and the mappings that leave out exactly one entry
BaseMappings ==
    { SubSeq(FullMapping, 1, n) : n \in 0..Len(FullMapping) }
    \cup { SelectSeq(FullMapping, LAMBDA item : item # FullMapping[k]) :
             k \in DOMAIN FullMapping }

\* entries for columns of the narrow table
ExtraItems == { << src, dst >> : src \in { "Mfr", "Cat" }, dst \in Range(STANDARD_COLUMNS) }

ExtraMappings ==
    { items \in UNION { [ 1..n -> ExtraItems ] : n \in 0..MaxExtra } :
        \A i, j \in DOMAIN items : i # j => items[i][1] # items[j][1] }

\* entries for both columns of the narrow table, in either order, alone or after
\* the entries of the wide table
PairMappings ==
    LET pairs == { << << src[1], dst[1] >>, << src[2], dst[2] >> >> :
                     src \in { << "Mfr", "Cat" >>, << "Cat", "Mfr" >> },
                     dst \in (PickFields \ { "" }) \X (PickFields \ { "" }) }
    IN  pairs \cup { FullMapping \o pair : pair \in pairs }

InputMappings ==
    { base \o extra : base \in BaseMappings, extra \in ExtraMappings }
    \cup { extra \o base : base \in BaseMappings, extra \in ExtraMappings }
    \cup PairMappings

InitFn ==
    /\ uploaded_file \in Tables
    /\ column_mapping \in InputMappings
    /\ mapping_step = FALSE
    /\ mapping_complete = FALSE
    /\ mapping_validated = FALSE
    /\ mapped_df = <<>>
    /\ avl_data = <<>>
    /\ validation = <<>>
    /\ edits = 0
    /\ uploads = 0
    /\ auto_mapping = <<>>
    /\ db = LoadedDb
    /\ last = Ran("init")

\* a validate_mapping that also stores its verdict in the session flag
CallValidateStoringFlag ==
    /\ validation' = << validate_mapping(column_mapping) >>
    /\ mapping_validated' = validate_mapping(column_mapping).is_valid
    /\ last' = Ran("validate")
    /\ UNCHANGED <<uploaded_file, mapping_step, column_mapping, mapping_complete,
                   mapped_df, avl_data, edits, uploads, auto_mapping, db>>

CallValidate ==
    /\ validation' = << validate_mapping(column_mapping) >>
    /\ last' = Ran("validate")
    /\ UNCHANGED <<uploaded_file, mapping_step, column_mapping, mapping_complete,
                   mapping_validated, mapped_df, avl_data, edits, uploads, auto_mapping, db>>

CallApply ==
    /\ mapped_df' = << apply_column_mapping(raw_df, column_mapping) >>
    /\ last' = Ran("apply")
    /\ UNCHANGED <<uploaded_file, mapping_step, column_mapping, mapping_complete,
                   mapping_validated, avl_data, validation, edits, uploads, auto_mapping, db>>

NextFn == CallValidate \/ CallApply

SpecFn == InitFn /\ [][NextFn]_vars

(***************************************************************************)
(* The body of the Auto-Map loop, lines 226-235, run for one source column *)
(* after another of any table made of the known column names               *)
(***************************************************************************)
MaxAutoMapped == 3

InitSuggest ==
    /\ uploaded_file = 0
    /\ mapping_step = FALSE
    /\ column_mapping = <<>>
    /\ mapping_complete = FALSE
    /\ mapping_validated = FALSE
    /\ mapped_df = <<>>
    /\ avl_data = <<>>
    /\ validation = <<>>
    /\ edits = 0
    /\ uploads = 0
    /\ auto_mapping = <<>>
    /\ db = LoadedDb
    /\ last = Ran("init")

\* one iteration of "for src_col in source_df.columns"
SuggestColumn(src_col) ==
    /\ Len(auto_mapping) < MaxAutoMapped
    /\ ~DictHas(auto_mapping, src_col)
    /\ LET dst_col == auto_map_column(src_col, auto_mapping)
       IN  /\ auto_mapping' = IF dst_col = "" THEN auto_mapping
                              ELSE DictSet(auto_mapping, src_col, dst_col)
           /\ last' = [ op |-> "suggest", before |-> auto_mapping,
                        src_col |-> src_col, dst_col |-> dst_col ]
    /\ UNCHANGED <<uploaded_file, mapping_step, column_mapping, mapping_complete,
                   mapping_validated, mapped_df, avl_data, validation, edits, uploads, db>>

NextSuggest == \E src_col \in MappableColumns : SuggestColumn(src_col)

SpecSuggest == InitSuggest /\ [][NextSuggest]_vars

(***************************************************************************)
(* The persistence functions called on their own                           *)
(***************************************************************************)
\* the largest item_id a save may hand out
MaxItemId == 3

\* a frame of the given columns whose cell r of column c holds <<c, r>>
FrameOf(rows, names) ==
    DataFrame(rows, [ i \in DOMAIN names |->
                        << names[i], [ r \in 1..rows |-> << names[i], r >> ] >> ])

\* the frames handed to save: an applied table, a table carrying some of the
\* canonical names in other spellings plus a column of its own (one cell
\* missing), a table with no canonical name, and a table in which two columns
\* are renamed to the same canonical name, with one row and with none
SaveFrames ==
    << apply_column_mapping(SourceTable(3), FullMapping),
       DfSetScalar(FrameOf(2, << "Manufacturer", " MODEL SKU ", "Vendor Code" >>),
                   "internal notes", NullValue),
       SourceTable(1),
       FrameOf(1, << "manufacturer", "Manufacturer" >>),
       FrameOf(0, << "manufacturer", "Manufacturer" >>) >>

\* the edit form's values, and dicts naming no canonical field
UpdateInputs ==
    { <<>>,
      << << "Vendor Code", << "typed", 1 >> >> >>,
      << << "Manufacturer", << "typed", 2 >> >>, << "Vendor Code", << "typed", 1 >> >>,
         << "Internal Notes / Memo", NullValue >> >> }

InitDb ==
    /\ uploaded_file = 0
    /\ mapping_step = FALSE
    /\ column_mapping = <<>>
    /\ mapping_complete = FALSE
    /\ mapping_validated = FALSE
    /\ mapped_df = <<>>
    /\ avl_data = <<>>
    /\ validation = <<>>
    /\ edits = 0
    /\ uploads = 0
    /\ auto_mapping = <<>>
    /\ db = NoDb
    /\ last = Ran("init")

Session == <<uploaded_file, mapping_step, column_mapping, mapping_complete,
             mapping_validated, mapped_df, avl_data, validation, edits, uploads,
             auto_mapping>>

Called(op, arg, result) ==
    [ op |-> op, before |-> db, arg |-> arg,
      returned |-> result.returned, raised |-> result.raised ]

CallCreate ==
    /\ db' = create_approved_vendor_list_table(db)
    /\ last' = [ op |-> "create", before |-> db ]
    /\ UNCHANGED Session

CallSave(f, today) ==
    LET result == save_approved_vendor_list_data(db, SaveFrames[f], today)
    IN  /\ next_item_id(result.db) - 1 <= MaxItemId
        /\ db' = result.db
        /\ last' = Called("save", f, result)
        /\ UNCHANGED Session

\* the edit form is built from a record read from the table (avl_crud.py 209)
CallDelete(item_id) ==
    LET result == delete_approved_vendor_list_item(db, item_id)
    IN  /\ db.exists
        /\ db' = result.db
        /\ last' = Called("delete", item_id, result)
        /\ UNCHANGED Session

CallDrop ==
    LET result == drop_approved_vendor_list_data(db)
    IN  /\ db' = result.db
        /\ last' = Called("drop", <<>>, result)
        /\ UNCHANGED Session

\* the edit form is built from a record read from the table (avl_crud.py 209)
CallUpdate(item_id, updated_data) ==
    LET result == update_avl_record(db, item_id, updated_data)
    IN  /\ db.exists
        /\ db' = result.db
        /\ last' = Called("update", << item_id, updated_data >>, result)
        /\ UNCHANGED Session

NextDb ==
    \/ CallCreate
    \/ \E f \in DOMAIN SaveFrames, today \in Dates : CallSave(f, today)
    \/ \E item_id \in 1..MaxItemId : CallDelete(item_id)
    \/ CallDrop
    \/ \E item_id \in 1..MaxItemId, updated_data \in UpdateInputs :
          CallUpdate(item_id, updated_data)

SpecDb == InitDb /\ [][NextDb]_vars

(***************************************************************************)
(* Properties                                                              *)
(***************************************************************************)
Destinations == DictValues(column_mapping)
StandardSet == Range(STANDARD_COLUMNS)

\* the mapping has two entries with the same destination
HasDuplicateDestination(mapping) ==
    \E i, j \in DOMAIN mapping : i # j /\ mapping[i][2] = mapping[j][2]

\* C1 (as claimed): in every reachable state of a session, no two different source
\* columns have mapping entries with the same canonical destination field.
C1_Injective == ~HasDuplicateDestination(column_mapping)

\* C2: whatever the source table and the mapping, the table apply_column_mapping
\* returns has exactly the 12 canonical columns, named and ordered as
\* STANDARD_COLUMNS, and every value in it is null or comes from a source column
\* that the mapping claims for that field.
C2_ApplyShape ==
    mapped_df # <<>> =>
        LET result == mapped_df[1]
        IN  /\ DfColumns(result) = STANDARD_COLUMNS
            /\ Len(result.cols) = CanonicalFieldCount
            /\ \A i \in DOMAIN result.cols :
                 \A r \in DOMAIN result.cols[i][2] :
                    LET value == result.cols[i][2][r]
                    IN  \/ value = NullValue
                        \/ << value[1], result.cols[i][1] >> \in Range(column_mapping)

\* an incomplete mapping with entries for columns of the table and for columns
\* the table does not have has been applied
C2_Witness ==
    /\ mapped_df # <<>>
    /\ last.op = "apply"
    /\ uploaded_file = 1
    /\ DictHas(column_mapping, "Mfr")
    /\ DictHas(column_mapping, "equipment category")
    /\ Destinations # StandardSet

\* C3 (as claimed): the table apply_column_mapping returns has as many rows as the
\* source table, also for a mapping with no entries.
C3_RowCountKept == mapped_df # <<>> => DfLen(mapped_df[1]) = DfLen(raw_df)

\* C4 (as claimed): every source column that has an entry before auto-map runs has
\* the same entry after it.
C4_AutoMapKeepsEntries ==
    last.op = "auto_map" =>
        \A i \in DOMAIN last.before :
            DictGet(column_mapping, last.before[i][1], "") = last.before[i][2]

\* C5 (as claimed): selecting for a source column a canonical field that another
\* source column already claims is rejected and leaves the mapping unchanged.
C5_DuplicateSetRejected ==
    [][ \A col \in PickColumns, dest \in PickFields :
          ( /\ SelectDestination(col, dest)
            /\ \E i \in DOMAIN column_mapping :
                 column_mapping[i][1] # col /\ column_mapping[i][2] = dest )
          => column_mapping' = column_mapping ]_vars

\* C6: for a mapping whose destinations are canonical fields, validate_mapping
\* answers valid exactly when the distinct destinations are all 12 canonical
\* fields, and lists 12 minus the number of distinct destinations as unmapped.
C6_ValidatorComplete ==
    (validation # <<>> /\ Destinations \subseteq StandardSet) =>
        /\ validation[1].is_valid <=> (Destinations = StandardSet)
        /\ Len(validation[1].unmapped_required)
             = CanonicalFieldCount - Cardinality(Destinations)

\* a mapping in which two source columns claim one field was validated and found valid
C6_Witness ==
    /\ validation # <<>>
    /\ last.op = "validate"
    /\ validation[1].is_valid
    /\ HasDuplicateDestination(column_mapping)

\* C7: unmapped_required holds exactly the canonical fields that no entry has as
\* its destination, each once, in the order of STANDARD_COLUMNS.
C7_UnmappedInRegistryOrder ==
    validation # <<>> =>
        LET unmapped == validation[1].unmapped_required
        IN  /\ Range(unmapped) = StandardSet \ Destinations
            /\ \A i, j \in DOMAIN unmapped :
                 i < j => StandardIndex(unmapped[i]) < StandardIndex(unmapped[j])

\* a mapping that leaves several fields unclaimed, not all at the end of the
\* registry, was validated
C7_Witness ==
    /\ validation # <<>>
    /\ last.op = "validate"
    /\ Len(validation[1].unmapped_required) >= 2
    /\ "Additional Notes" \in Destinations

\* the first canonical field, in registry order, that matches src_col and that no
\* other source column claims in the session; "" if there is none
FirstUnclaimedMatch(src_col, session) ==
    LET free == { k \in DOMAIN STANDARD_COLUMNS :
                    /\ name_matches(src_col, STANDARD_COLUMNS[k])
                    /\ ~\E i \in DOMAIN session :
                          session[i][1] # src_col /\ session[i][2] = STANDARD_COLUMNS[k] }
    IN  IF free = {} THEN ""
        ELSE STANDARD_COLUMNS[CHOOSE k \in free : \A j \in free : k <= j]

\* the session after an auto-map pass that suggests, column by column, the first
\* match no other column claims, counting the claims made earlier in the pass
RECURSIVE SessionAfterSuggestions(_, _)
SessionAfterSuggestions(session, columns) ==
    IF columns = <<>> THEN session
    ELSE IF FirstUnclaimedMatch(Head(columns), session) = ""
    THEN SessionAfterSuggestions(session, Tail(columns))
    ELSE SessionAfterSuggestions(
             DictSet(session, Head(columns), FirstUnclaimedMatch(Head(columns), session)),
             Tail(columns))

\* C8 (as claimed): auto-map gives each source column the first canonical field in
\* registry order that matches its normalized name and is not claimed by another
\* source column of the session, whether that claim was made earlier in the pass
\* or by the operator before it; a column with no such field stays as it was.
C8_SuggestionSkipsClaimed ==
    last.op = "auto_map" =>
        \A col \in Range(DfColumns(raw_df)) :
            DictGet(column_mapping, col, "")
              = DictGet(SessionAfterSuggestions(last.before, DfColumns(raw_df)), col, "")

C10_IncompleteMappingApplied ==
    (validation # <<>> /\ mapped_df # <<>> /\ Destinations # StandardSet) =>
        /\ ~validation[1].is_valid
        /\ Range(validation[1].unmapped_required) = StandardSet \ Destinations
        /\ Len(DfColumns(mapped_df[1])) = CanonicalFieldCount
        /\ \A col \in StandardSet \ Destinations :
             /\ DfHasColumn(mapped_df[1], col)
             /\ \A r \in DOMAIN DfSeries(mapped_df[1], col) :
                  DfSeries(mapped_df[1], col)[r] = NullValue

\* a mapping claiming 11 of the 12 fields was validated and applied to a table with
\* rows, some of its columns being copied
C10_Witness ==
    /\ validation # <<>>
    /\ mapped_df # <<>>
    /\ Cardinality(Destinations) = CanonicalFieldCount - 1
    /\ DfLen(mapped_df[1]) > 0
    /\ \E i \in DOMAIN mapped_df[1].cols : \E r \in DOMAIN mapped_df[1].cols[i][2] :
          mapped_df[1].cols[i][2][r] # NullValue

\* the entries of the mapping whose source column the table has and whose
\* destination is dest, in mapping order
CopiedInto(dest) ==
    SelectSeq(column_mapping,
              LAMBDA item : item[2] = dest /\ DfHasColumn(raw_df, item[1]))

HasStaleEntry == \E i \in DOMAIN column_mapping : ~DfHasColumn(raw_df, column_mapping[i][1])

\* C13 (as claimed): apply_column_mapping returns a canonical table only for a
\* mapping all of whose source columns are columns of the source table; a mapping
\* with an entry for an absent column ends in an error and no table.
C13_StaleEntryFailsFast == mapped_df # <<>> => ~HasStaleEntry

\* C12 (as claimed): when a table is uploaded while the mapping interface is open,
\* the session it is presented with holds no entry, neither flag, and no applied
\* table of the table uploaded before.
C12_UploadResetsSession ==
    (last.op = "upload" /\ mapping_step) =>
        /\ column_mapping = <<>>
        /\ ~mapping_validated
        /\ ~mapping_complete
        /\ mapped_df = <<>>

\* C14 (as claimed): once the interface has been rendered, mapping_validated is
\* true exactly when the entries of the mapping claim all 12 canonical fields.
C14_ValidatedFlagDerived ==
    validation # <<>> => (mapping_validated <=> (Destinations = StandardSet))

\* C15: mapping_complete becomes true only in a run in which the operator presses
\* Apply Mapping, a reset makes it false, and whenever it is true the table that
\* apply_column_mapping produced is stored in mapped_df, has the canonical columns
\* and, in a run that shows the interface, is the table the caller holds as avl_data.
C15_CompleteOnlyAfterApply ==
    [][ /\ (mapping_complete' /\ ~mapping_complete) => ApplyMapping
        /\ ResetMapping => ~mapping_complete'
        /\ mapping_complete' =>
             /\ mapped_df' # <<>>
             /\ DfColumns(mapped_df'[1]) = STANDARD_COLUMNS
             /\ InterfaceShown' => avl_data' = mapped_df' ]_vars

\* a valid mapping was applied to a table with rows and the caller took the result
C15_Witness ==
    /\ last.op = "apply"
    /\ mapping_complete
    /\ mapped_df # <<>>
    /\ DfLen(mapped_df[1]) > 0
    /\ avl_data = mapped_df

\* C16: after Reset Mapping the mapping is empty, mapping_validated and
\* mapping_complete are false, and the validation shown is not valid and lists all
\* 12 canonical fields as unmapped.
C16_ResetEmptiesSession ==
    last.op = "reset" =>
        /\ column_mapping = <<>>
        /\ ~mapping_validated
        /\ ~mapping_complete
        /\ validation = << [ is_valid |-> FALSE, unmapped_required |-> STANDARD_COLUMNS ] >>
        /\ validate_mapping(column_mapping).unmapped_required = STANDARD_COLUMNS

\* Reset Mapping was pressed on a mapping that claimed some but not all fields
C16_Witness ==
    /\ last.op = "reset"
    /\ last.before # <<>>
    /\ DictValues(last.before) # StandardSet

\* C17: pressing Auto-Map Columns in the state that a press of Auto-Map Columns
\* left, with no edit in between, changes neither the mapping (entries and their
\* order) nor the flags nor the validation shown.
C17_AutoMapIdempotent ==
    [][ (last.op = "auto_map" /\ AutoMapColumns) =>
            /\ column_mapping' = column_mapping
            /\ mapping_validated' = mapping_validated
            /\ mapping_complete' = mapping_complete
            /\ validation' = validation ]_vars

\* auto-map has run on a mapping that already held entries and left it as it was:
\* the second of two presses in a row
C17_Witness ==
    /\ last.op = "auto_map"
    /\ last.before # <<>>
    /\ last.before = column_mapping

\* C20 (as claimed): after auto-map on a table with a column named
\* "equipment category", that column is mapped to "Equipment Category".
C20_ExactNameMapped ==
    (last.op = "auto_map" /\ DfHasColumn(raw_df, "equipment category")) =>
        DictGet(column_mapping, "equipment category", "") = "Equipment Category"

\* C20 (amended): after auto-map on a table with a column named
\* "equipment category", that column is mapped to "Equipment Category" provided no
\* column before it in the table matches "Equipment Category"; if one does, that
\* column takes the field and "equipment category" keeps the entry it had, or none.
C20_ExactNameMappedIfFirst ==
    (last.op = "auto_map" /\ DfHasColumn(raw_df, "equipment category")) =>
        LET columns == DfColumns(raw_df)
            position == CHOOSE i \in DOMAIN columns : columns[i] = "equipment category"
            earlier == { i \in DOMAIN columns :
                           i < position /\ name_matches(columns[i], "Equipment Category") }
        IN  IF earlier = {}
            THEN DictGet(column_mapping, "equipment category", "") = "Equipment Category"
            ELSE /\ \E i \in earlier :
                      DictGet(column_mapping, columns[i], "") = "Equipment Category"
                 /\ DictGet(column_mapping, "equipment category", "")
                      = DictGet(last.before, "equipment category", "")

\* auto-map has run on a table in which "equipment category" is the first column
\* and the operator had mapped it to another field
C20_Witness ==
    /\ last.op = "auto_map"
    /\ uploaded_file = 3
    /\ DictGet(last.before, "equipment category", "") = "Manufacturer"
    /\ DictGet(column_mapping, "equipment category", "") = "Equipment Category"

suggest_from_claimed(src_col, claimed) ==
    LET free == { k \in DOMAIN STANDARD_COLUMNS :
                    name_matches(src_col, STANDARD_COLUMNS[k])
                      /\ STANDARD_COLUMNS[k] \notin claimed }
    IN  IF free = {} THEN ""
        ELSE STANDARD_COLUMNS[CHOOSE k \in free : \A j \in free : k <= j]

\* dicts that claim the same fields as d in another order and for other columns
SameClaims(d) ==
    { [ i \in DOMAIN d |-> d[Len(d) + 1 - i] ],
      [ i \in DOMAIN d |-> << TableColumns[3][i], d[i][2] >> ],
      [ i \in DOMAIN d |-> << TableColumns[3][Len(d) + 1 - i], d[Len(d) + 1 - i][2] >> ] }

SavedRows == SubSeq(db.rows, Len(last.before.rows) + 1, Len(db.rows))

\* the effect of a save that ran to its return statement, for the frame it was given
SaveEffect(df) ==
    /\ last.returned = DfLen(df)
    /\ Len(db.rows) = Len(last.before.rows) + DfLen(df)
    /\ SubSeq(db.rows, 1, Len(last.before.rows)) = last.before.rows
    /\ \A i \in DOMAIN SavedRows :
          /\ SavedRows[i].item_id \notin ItemIds(last.before)
          /\ \A j \in DOMAIN SavedRows : SavedRows[j].item_id = SavedRows[i].item_id => j = i
          /\ \A k \in DOMAIN STANDARD_COLUMNS :
                (\A c \in DOMAIN df.cols : normalize_column(df.cols[c][1]) # STANDARD_COLUMNS[k])
                    => SavedRows[i].values[k] = NullValue

\* what every save that does not raise satisfies
SaveEffectUnlessRaised ==
    (last.op = "save" /\ ~last.raised) => SaveEffect(SaveFrames[last.arg])

\* C28 (as claimed): save_approved_vendor_list_data on a table of n rows inserts
\* exactly n new records with fresh item_ids, leaves the existing records
\* unchanged and returns n; a canonical field absent from the table is stored
\* as null.
C28_SaveInsertsFreshRecords ==
    last.op = "save" => (~last.raised /\ SaveEffect(SaveFrames[last.arg]))


\* C29: after drop_approved_vendor_list_data the table holds no record and its
\* auto-increment counter is reset, and a save that follows numbers its first
\* record 1, whatever saves and deletes came before the drop.
C29_DropResetsCounter ==
    [][ /\ last'.op = "drop" => (db'.rows = <<>> /\ next_item_id(db') = 1)
        /\ (last.op = "drop" /\ last'.op = "save" /\ ~last'.raised /\ last'.returned > 0)
              => db'.rows[1].item_id = 1 ]_vars

\* a drop of a table that holds records and whose highest id was deleted before
C29_Witness ==
    /\ last.op = "drop" /\ ~last.raised
    /\ last.before.rows # <<>>
    /\ SetMax(Range(last.before.sequence)) > SetMax(ItemIds(last.before))
    /\ db.rows = <<>>

\* the canonical fields named by the dict of the last update
NamedFields == update_fields(last.arg[2])

C21_EditsLeaveTablesAlone ==
    [][ last'.op \in { "select", "auto_map" } => UNCHANGED <<uploaded_file, mapped_df, db>> ]_vars

\* an edit after a table was applied and saved
C21_Witness ==
    /\ last.op = "select"
    /\ mapped_df # <<>>
    /\ db.rows # <<>>

\* Auto-Map Columns pressed after a table was applied and saved
C21_WitnessAutoMap ==
    /\ last.op = "auto_map"
    /\ last.before # column_mapping
    /\ mapped_df # <<>>
    /\ db.rows # <<>>

\* the source columns on screen that have no mapping entry
UnmappedColumns == { col \in Range(DfColumns(raw_df)) : ~DictHas(column_mapping, col) }

\* choosing the empty option for a column without an entry leaves the mapping as it is
ClearingUnmappedChangesNothing ==
    InterfaceShown => \A col \in UnmappedColumns :
        render_source_columns(column_mapping, DfColumns(raw_df), << col, "" >>) = column_mapping

\* C22: a run in which the operator selects the empty option for a source column
\* deletes that column's entry and leaves every other entry, and their order, as
\* they were; for a column that has no entry the empty selection changes nothing.
C22_ClearDeletesOneEntry ==
    /\ []ClearingUnmappedChangesNothing
    /\ [][ (last'.op = "select" /\ last'.pick[2] = "") =>
              /\ DictHas(column_mapping, last'.pick[1])
              /\ ~DictHas(column_mapping', last'.pick[1])
              /\ \E k \in DOMAIN column_mapping :
                    /\ column_mapping[k][1] = last'.pick[1]
                    /\ column_mapping' = SubSeq(column_mapping, 1, k - 1)
                                           \o SubSeq(column_mapping, k + 1, Len(column_mapping)) ]_vars

\* the operator cleared the first of two entries while another column had no entry
C22_Witness ==
    /\ last.op = "select" /\ last.pick[2] = ""
    /\ Len(last.before) = 2
    /\ last.before[1][1] = last.pick[1]
    /\ column_mapping = << last.before[2] >>
    /\ UnmappedColumns # {}

\* field is claimed in the mapping by a source column other than col
ClaimedByOther(mapping, col, field) ==
    \E i \in DOMAIN mapping : mapping[i][1] # col /\ mapping[i][2] = field

\* a list computed from the current mapping for a column without an entry holds
\* no field that another column claims
OptionsFilteredWhenComputed ==
    InterfaceShown =>
        \A col \in UnmappedColumns :
            \A opt \in Range(dest_options(col, column_mapping)) :
                ~ClaimedByOther(column_mapping, col, opt)

\* the lists on screen after a run in which the operator changed one selectbox
OfferedOptions == offered_options(last.before, DfColumns(raw_df), last.pick)

\* C23 (as claimed): after every render step, the options offered to a source
\* column that has no mapping entry contain no canonical field that another
\* source column currently claims.
C23_OfferedOptionsExcludeClaims ==
    (last.op = "select" /\ InterfaceShown) =>
        \A i \in DOMAIN OfferedOptions :
            OfferedOptions[i][1] \in UnmappedColumns =>
                \A opt \in Range(OfferedOptions[i][2]) :
                    ~ClaimedByOther(column_mapping, OfferedOptions[i][1], opt)

\* df has the 12 canonical fields as its columns and no other column
IsCanonicalTable(df) ==
    /\ Len(DfColumns(df)) = Len(STANDARD_COLUMNS)
    /\ Range(DfColumns(df)) = Range(STANDARD_COLUMNS)

\* the table saved by Save Mapped Data to Database is a canonical table
MappedTableSavedIsCanonical ==
    last.op = "save_mapped" => IsCanonicalTable(last.table)

\* C24 (as claimed): every table handed to save_approved_vendor_list_data has
\* exactly the 12 canonical fields; a table with other columns, or without some
\* canonical field, is not accepted.
C24_OnlyCanonicalTablesSaved ==
    last.op \in { "save_mapped", "save_raw" } => IsCanonicalTable(last.table)

\* C25: the mapping is applied only in a run whose validation of the mapping is
\* valid: a run that stores an applied table, or in which mapping_complete
\* becomes true, is a press of Apply Mapping on a mapping whose entries claim all
\* 12 canonical fields, the mapping the run started from.
C25_ApplyOnlyWhenValid ==
    [][ (mapped_df' # mapped_df \/ (mapping_complete' /\ ~mapping_complete)
            \/ last'.op = "apply") =>
           /\ last'.op = "apply"
           /\ validate_mapping(column_mapping).is_valid
           /\ column_mapping' = column_mapping
           /\ validation' = << validate_mapping(column_mapping') >>
           /\ validation'[1].is_valid
           /\ DictValues(column_mapping') = Range(STANDARD_COLUMNS)
           /\ mapped_df' = << apply_column_mapping(raw_df, column_mapping') >> ]_vars

\* Apply Mapping pressed on a mapping of 12 entries, each for a column of the
\* uploaded table, that the operator edited twice
C25_Witness ==
    /\ last.op = "apply"
    /\ validation # <<>> /\ validation[1].is_valid
    /\ Len(column_mapping) = Len(STANDARD_COLUMNS)
    /\ ~HasStaleEntry
    /\ edits = 2

\* C26 (as claimed): whenever mapping_complete is true, the stored applied table
\* is apply_column_mapping of the uploaded source table under the current
\* mapping: no edit of an entry and no other upload after an apply leaves a
\* completed session whose stored table disagrees with them.
C26_CompletedTableIsCurrent ==
    (mapping_complete /\ uploaded_file # 0) =>
        mapped_df = << apply_column_mapping(raw_df, column_mapping) >>

\* the stale table is the one the caller offers for saving
StaleTableOffered ==
    /\ InterfaceShown /\ mapping_complete
    /\ mapped_df # << apply_column_mapping(raw_df, column_mapping) >>
    /\ avl_data = mapped_df

\* the status display names, for every claimed field, a column of the uploaded
\* table whose values apply_column_mapping puts into that field
StatusAgreesWithApply(mapping) ==
    \A k \in DOMAIN STANDARD_COLUMNS :
        destination_status(mapping)[k] # "" =>
            /\ DfHasColumn(raw_df, destination_status(mapping)[k])
            /\ DfSeries(apply_column_mapping(raw_df, mapping), STANDARD_COLUMNS[k])
                 = DfSeries(raw_df, destination_status(mapping)[k])

\* C27 (as claimed): in every state in which the interface is shown, the source
\* column the status display reports a claimed field as "Mapped from" is the
\* column whose values apply_column_mapping copies into that field, also when
\* two source columns claim the same field.
C27_StatusNamesCopiedColumn ==
    InterfaceShown => StatusAgreesWithApply(column_mapping)

\* the same for the mappings in which no field is claimed twice and every entry
\* is for a column of the uploaded table
StatusAgreesWhenOneToOne ==
    (InterfaceShown /\ ~HasDuplicateDestination(column_mapping) /\ ~HasStaleEntry)
        => StatusAgreesWithApply(column_mapping)

\* two columns of the uploaded table claim one field, and the display names the
\* one whose values are overwritten
StatusNamesOverwrittenColumn ==
    /\ InterfaceShown
    /\ ~HasStaleEntry
    /\ HasDuplicateDestination(column_mapping)
    /\ ~StatusAgreesWithApply(column_mapping)
====
